---- MODULE Spec2Model ----
(***************************************************************************)
(* Selection strategies of src/selection_method.py: one call of            *)
(* get_winners(population, k) on one selector.  Individuals are named by   *)
(* their position in the caller's original population; fitness[id] is the  *)
(* value Individual.fitness() reports.  Reals are exact rationals <<n, d>> *)
(* with d > 0 in lowest terms; the uniform draws of random.random() range  *)
(* over the grid 0/Grid .. (Grid-1)/Grid of [0, 1).                        *)
(***************************************************************************)
EXTENDS Integers, Sequences, FiniteSets, TLC

MaxLen == 3
MaxK == 3
Grid == 4

FitVals == {-1, 0, 1, 2}
T0s == {0, 1, 2}
Tcs == {1}
Rates == {0, 1}

Methods == {"Elite", "Roulette", "Universal", "Rank", "Boltzmann",
            "DetTournament", "ProbTournament"}

VARIABLES method, m, t0, tc, rate, population, fitness, k,
          pc, i, winners, result, fitness_list, r, threshold, sampled, entrants, evals

vars == <<method, m, t0, tc, rate, population, fitness, k,
          pc, i, winners, result, fitness_list, r, threshold, sampled, entrants, evals>>

----------------------------------------------------------------------------
(* Exact rational arithmetic standing for Python's float arithmetic.       *)

Abs(x) == IF x < 0 THEN -x ELSE x

RECURSIVE GCD(_, _)
GCD(a, b) == IF b = 0 THEN a ELSE GCD(b, a % b)

Norm(n, d) ==
    LET s == IF d < 0 THEN -1 ELSE 1
        g == GCD(Abs(n), Abs(d))
    IN  <<(s * n) \div g, (s * d) \div g>>

RInt(n) == <<n, 1>>
RAdd(a, b) == Norm(a[1] * b[2] + b[1] * a[2], a[2] * b[2])
RSub(a, b) == Norm(a[1] * b[2] - b[1] * a[2], a[2] * b[2])
RMul(a, b) == Norm(a[1] * b[1], a[2] * b[2])
RDiv(a, b) == Norm(a[1] * b[2], a[2] * b[1])
RLt(a, b) == a[1] * b[2] < b[1] * a[2]
RLe(a, b) == a[1] * b[2] <= b[1] * a[2]
RIsZero(a) == a[1] = 0

RECURSIVE Pow2(_)
Pow2(n) == IF n = 0 THEN 1 ELSE 2 * Pow2(n - 1)

(* math.exp on the rationals: strictly positive, strictly increasing,      *)
(* Exp(0) = 1; powers of two at the integers, linear in between.           *)
Exp(q) ==
    LET fl == q[1] \div q[2]
        fr == Norm(q[1] % q[2], q[2])
        p  == IF fl >= 0 THEN <<Pow2(fl), 1>> ELSE <<1, Pow2(-fl)>>
    IN  RMul(p, RAdd(RInt(1), fr))

(* math.ceil(n / d) for an integer n and d > 0 *)
Ceil(n, d) == -((-n) \div d)

RECURSIVE Sum(_)
Sum(s) == IF Len(s) = 0 THEN RInt(0) ELSE RAdd(Sum(SubSeq(s, 1, Len(s) - 1)), s[Len(s)])

RECURSIVE Copies(_, _)
Copies(x, n) == IF n <= 0 THEN <<>> ELSE <<x>> \o Copies(x, n - 1)

----------------------------------------------------------------------------
(* population.sort(key=lambda ind: ind.fitness(), reverse=True): stable,   *)
(* descending.  SortBefore(a, b): an element of key a stays ahead of a     *)
(* later element of key b.                                                 *)

SortBeforeAscending(a, b) == a <= b

SortBefore(a, b) == a >= b

RECURSIVE Insert(_, _, _)
Insert(s, x, f) ==
    IF Len(s) = 0 THEN <<x>>
    ELSE IF SortBefore(f[s[1]], f[x]) THEN <<s[1]>> \o Insert(Tail(s), x, f)
    ELSE <<x>> \o s

RECURSIVE SortDesc(_, _)
SortDesc(s, f) ==
    IF Len(s) = 0 THEN <<>>
    ELSE Insert(SortDesc(SubSeq(s, 1, Len(s) - 1), f), s[Len(s)], f)

----------------------------------------------------------------------------
(* temperature(t0, tc, k, t) *)
temperature(T0, Tc, kk, t) ==
    RAdd(RInt(Tc), RMul(RInt(T0 - Tc), Exp(RInt(-(kk * t)))))

EliteQuotaFloor(kk, rank, length) == (kk - rank) \div length

(* n = math.ceil((k - i) / length), rank i counted from 0 *)
EliteQuota(kk, rank, length) == Ceil(kk - rank, length)

RECURSIVE EliteFrom(_, _, _)
EliteFrom(pop, kk, rank) ==
    IF rank >= Len(pop) THEN <<>>
    ELSE Copies(pop[rank + 1], EliteQuota(kk, rank, Len(pop)))
            \o EliteFrom(pop, kk, rank + 1)

(* The inner walk "for j in range(length)" of do_roulette and of           *)
(* UniversalSelection: the first position j (from 1) with                  *)
(* acc < x <= acc + fitness_list[j] / fitness_sum, or 0 when the loop ends *)
(* without a break.  fsum is not zero.                                     *)
WalkHit(acc, x, rel) == RLt(acc, x) /\ RLe(x, RAdd(acc, rel))

RECURSIVE Walk(_, _, _, _, _)
Walk(fl, fsum, x, j, acc) ==
    IF j > Len(fl) THEN 0
    ELSE LET relative_fitness == RDiv(fl[j], fsum)
         IN  IF WalkHit(acc, x, relative_fitness) THEN j
             ELSE Walk(fl, fsum, x, j + 1, RAdd(acc, relative_fitness))

UniversalPointerUnparenthesised(rr, ii, kk) == RAdd(rr, RDiv(RInt(ii), RInt(kk)))

(* ri = (r + i) / k *)
UniversalPointer(rr, ii, kk) == RDiv(RAdd(rr, RInt(ii)), RInt(kk))

RankWeightFromOne(length, idx) == Norm(length - idx, length)

(* (length - (idx + 1)) / length, idx counted from 0 *)
RankWeight(length, idx) == Norm(length - (idx + 1), length)

DetReplacesReversed(best_fitness, aux_fitness) == best_fitness > aux_fitness

(* best_fitness < aux_fitness: the later sample replaces the best so far *)
DetReplaces(best_fitness, aux_fitness) == best_fitness < aux_fitness

RECURSIVE DetBest(_, _, _, _)
DetBest(pop, f, smp, j) ==
    IF j = 1 THEN pop[smp[1]]
    ELSE LET best == DetBest(pop, f, smp, j - 1)
             chosen == pop[smp[j]]
         IN  IF DetReplaces(f[best], f[chosen]) THEN chosen ELSE best

(* first_fitness > second_fitness *)
ProbFirstIsBest(first_fitness, second_fitness) == first_fitness > second_fitness

(* random.uniform(0.5, 1) = 0.5 + (1 - 0.5) * random.random() *)
Uniform(a, b, u) == RAdd(a, RMul(RSub(b, a), u))

Draws == {<<a, Grid>> : a \in 0 .. (Grid - 1)}
UnitDraws == {Norm(d[1], d[2]) : d \in Draws}

----------------------------------------------------------------------------
Init ==
    /\ method \in Methods
    /\ m \in (IF method = "DetTournament" THEN 1 .. MaxLen ELSE {1})
    /\ t0 \in (IF method = "Boltzmann" THEN T0s ELSE {1})
    /\ tc \in (IF method = "Boltzmann" THEN Tcs ELSE {1})
    /\ rate \in (IF method = "Boltzmann" THEN Rates ELSE {0})
    /\ \E n \in 0 .. MaxLen :
          /\ population = [j \in 1 .. n |-> j]
          /\ fitness \in [1 .. n -> FitVals]
    /\ k \in -1 .. MaxK
    /\ pc = "start"
    /\ i = 0
    /\ winners = <<>>
    /\ result = "pending"
    /\ fitness_list = <<>>
    /\ r = RInt(0)
    /\ threshold = RInt(0)
    /\ sampled = <<>>
    /\ entrants = {}
    /\ evals = 0

config == <<method, m, t0, tc, rate, fitness, k>>

Return(w) ==
    /\ pc' = "done"
    /\ result' = "returned"
    /\ winners' = w

Raise(e) ==
    /\ pc' = "done"
    /\ result' = e
    /\ winners' = winners

(* EliteSelection.get_winners *)
EliteGetWinners ==
    /\ pc = "start" /\ method = "Elite"
    /\ IF Len(population) = 0
       THEN /\ Return(<<>>)
            /\ UNCHANGED <<population, evals>>
       ELSE /\ population' = SortDesc(population, fitness)
            /\ evals' = evals + Len(population)
            /\ Return(EliteFrom(population', k, 0))
    /\ UNCHANGED <<config, i, fitness_list, r, threshold, sampled, entrants>>

(* RouletteWheelSelection.get_winners up to the call of do_roulette *)
RouletteGetWinners ==
    /\ pc = "start" /\ method = "Roulette"
    /\ IF Len(population) = 0
       THEN /\ Return(<<>>)
            /\ UNCHANGED <<fitness_list, evals>>
       ELSE /\ fitness_list' = [j \in 1 .. Len(population) |-> RInt(fitness[population[j]])]
            /\ evals' = evals + Len(population)
            /\ pc' = "roulette"
            /\ UNCHANGED <<winners, result>>
    /\ UNCHANGED <<config, population, i, r, threshold, sampled, entrants>>

(* RankSelection.get_winners up to the call of do_roulette *)
RankGetWinners ==
    /\ pc = "start" /\ method = "Rank"
    /\ IF Len(population) = 0
       THEN /\ Return(<<>>)
            /\ UNCHANGED <<population, fitness_list, evals>>
       ELSE /\ population' = SortDesc(population, fitness)
            /\ fitness_list' = [j \in 1 .. Len(population) |->
                                   RankWeight(Len(population), j - 1)]
            /\ evals' = evals + Len(population)
            /\ pc' = "roulette"
            /\ UNCHANGED <<winners, result>>
    /\ UNCHANGED <<config, i, r, threshold, sampled, entrants>>

(* EntropicBoltzmannSelection.get_winners up to the call of do_roulette *)
BoltzmannGetWinners ==
    /\ pc = "start" /\ method = "Boltzmann"
    /\ IF Len(population) = 0
       THEN /\ Return(<<>>)
            /\ UNCHANGED <<fitness_list, evals>>
       ELSE LET temp == temperature(t0, tc, rate, k)
            IN  IF RIsZero(temp)
                THEN /\ Raise("ZeroDivisionError")
                     /\ evals' = evals + 1
                     /\ UNCHANGED fitness_list
                ELSE LET pseudo == [j \in 1 .. Len(population) |->
                                       Exp(RDiv(RInt(fitness[population[j]]), temp))]
                         avg_population == RDiv(Sum(pseudo), RInt(Len(pseudo)))
                     IN  /\ fitness_list' = [j \in 1 .. Len(pseudo) |->
                                                RDiv(pseudo[j], avg_population)]
                         /\ evals' = evals + Len(population)
                         /\ pc' = "roulette"
                         /\ UNCHANGED <<winners, result>>
    /\ UNCHANGED <<config, population, i, r, threshold, sampled, entrants>>

(* do_roulette: one iteration of "for i in range(k)" *)
DoRouletteDraw ==
    /\ pc = "roulette" /\ i < k
    /\ \E u \in UnitDraws :
          /\ r' = u
          /\ IF RIsZero(Sum(fitness_list))
             THEN /\ Raise("ZeroDivisionError")
                  /\ UNCHANGED i
             ELSE LET j == Walk(fitness_list, Sum(fitness_list), u, 1, RInt(0))
                  IN  /\ winners' = IF j = 0 THEN winners
                                    ELSE Append(winners, population[j])
                      /\ i' = i + 1
                      /\ UNCHANGED <<pc, result>>
    /\ UNCHANGED <<config, population, fitness_list, threshold, sampled, entrants, evals>>

(* do_roulette: range(k) is exhausted, return winners *)
DoRouletteReturn ==
    /\ pc = "roulette" /\ i >= k
    /\ Return(winners)
    /\ UNCHANGED <<config, population, i, fitness_list, r, threshold, sampled, entrants, evals>>

(* UniversalSelection.get_winners up to the loop: the single draw r *)
UniversalGetWinners ==
    /\ pc = "start" /\ method = "Universal"
    /\ IF Len(population) = 0
       THEN /\ Return(<<>>)
            /\ UNCHANGED <<fitness_list, evals, r>>
       ELSE /\ fitness_list' = [j \in 1 .. Len(population) |-> RInt(fitness[population[j]])]
            /\ evals' = evals + Len(population)
            /\ r' \in UnitDraws
            /\ pc' = "universal"
            /\ UNCHANGED <<winners, result>>
    /\ UNCHANGED <<config, population, i, threshold, sampled, entrants>>

(* UniversalSelection.get_winners: one iteration of "for i in range(k)" *)
UniversalStep ==
    /\ pc = "universal" /\ i < k
    /\ IF RIsZero(Sum(fitness_list))
       THEN /\ Raise("ZeroDivisionError")
            /\ UNCHANGED i
       ELSE LET ri == UniversalPointer(r, i, k)
                j == Walk(fitness_list, Sum(fitness_list), ri, 1, RInt(0))
            IN  /\ winners' = IF j = 0 THEN winners
                              ELSE Append(winners, population[j])
                /\ i' = i + 1
                /\ UNCHANGED <<pc, result>>
    /\ UNCHANGED <<config, population, fitness_list, r, threshold, sampled, entrants, evals>>

UniversalReturn ==
    /\ pc = "universal" /\ i >= k
    /\ Return(winners)
    /\ UNCHANGED <<config, population, i, fitness_list, r, threshold, sampled, entrants, evals>>

(* DeterministicTournamentSelection.get_winners up to the loop *)
DetGetWinners ==
    /\ pc = "start" /\ method = "DetTournament"
    /\ IF Len(population) = 0
       THEN Return(<<>>)
       ELSE /\ pc' = "det"
            /\ UNCHANGED <<winners, result>>
    /\ UNCHANGED <<config, population, i, fitness_list, r, threshold, sampled, entrants, evals>>

(* one tournament: the m index draws random.randint(0, length - 1) *)
DetDraw ==
    /\ pc = "det" /\ i < k
    /\ \E smp \in [1 .. m -> 1 .. Len(population)] :
          /\ entrants' = {smp[j] : j \in 1 .. m}
          /\ winners' = Append(winners, DetBest(population, fitness, smp, m))
    /\ evals' = evals + m
    /\ i' = i + 1
    /\ UNCHANGED <<config, population, pc, result, fitness_list, r, threshold, sampled>>

DetReturn ==
    /\ pc = "det" /\ i >= k
    /\ Return(winners)
    /\ UNCHANGED <<config, population, i, fitness_list, r, threshold, sampled, entrants, evals>>

(* ProbabilisticTournamentSelection.get_winners up to the loop: threshold *)
ProbGetWinners ==
    /\ pc = "start" /\ method = "ProbTournament"
    /\ IF Len(population) = 0
       THEN /\ Return(<<>>)
            /\ UNCHANGED threshold
       ELSE /\ \E u \in UnitDraws : threshold' = Uniform(<<1, 2>>, RInt(1), u)
            /\ pc' = "prob"
            /\ UNCHANGED <<winners, result>>
    /\ UNCHANGED <<config, population, i, fitness_list, r, sampled, entrants, evals>>

(* one probabilistic tournament *)
ProbDraw ==
    /\ pc = "prob" /\ i < k
    /\ \E a \in 1 .. Len(population), b \in 1 .. Len(population), u \in UnitDraws :
          LET first == population[a]
              second == population[b]
              fb == ProbFirstIsBest(fitness[first], fitness[second])
              best == IF fb THEN first ELSE second
              worst == IF fb THEN second ELSE first
              ru == Uniform(RInt(0), RInt(1), u)
          IN  /\ sampled' = <<a, b>>
              /\ r' = ru
              /\ winners' = Append(winners, IF RLt(ru, threshold) THEN best ELSE worst)
    /\ evals' = evals + 2
    /\ i' = i + 1
    /\ UNCHANGED <<config, population, pc, result, fitness_list, threshold, entrants>>

ProbReturn ==
    /\ pc = "prob" /\ i >= k
    /\ Return(winners)
    /\ UNCHANGED <<config, population, i, fitness_list, r, threshold, sampled, entrants, evals>>

Next ==
    \/ EliteGetWinners
    \/ RouletteGetWinners
    \/ RankGetWinners
    \/ BoltzmannGetWinners
    \/ DoRouletteDraw
    \/ DoRouletteReturn
    \/ UniversalGetWinners
    \/ UniversalStep
    \/ UniversalReturn
    \/ DetGetWinners
    \/ DetDraw
    \/ DetReturn
    \/ ProbGetWinners
    \/ ProbDraw
    \/ ProbReturn

Spec == Init /\ [][Next]_vars

(* One strategy at a time *)
InitElite == Init /\ method = "Elite"
NextElite == EliteGetWinners
SpecElite == InitElite /\ [][NextElite]_vars

InitUniversal == Init /\ method = "Universal"
NextUniversal == UniversalGetWinners \/ UniversalStep \/ UniversalReturn
SpecUniversal == InitUniversal /\ [][NextUniversal]_vars

InitRank == Init /\ method = "Rank"
NextRank == RankGetWinners \/ DoRouletteDraw \/ DoRouletteReturn
SpecRank == InitRank /\ [][NextRank]_vars

(* The full tournament: m is the population length.  A tournament only     *)
(* compares fitness values, so three levels give every ordering, ties      *)
(* included, of three individuals.                                         *)
InitDet ==
    /\ Init
    /\ method = "DetTournament"
    /\ (m = Len(population) \/ Len(population) = 0)
    /\ \A j \in 1 .. Len(population) : fitness[j] \in {0, 1, 2}
NextDet == DetGetWinners \/ DetDraw \/ DetReturn
SpecDet == InitDet /\ [][NextDet]_vars

TypeOK ==
    /\ method \in Methods
    /\ pc \in {"start", "roulette", "universal", "det", "prob", "done"}
    /\ result \in {"pending", "returned", "ZeroDivisionError"}
    /\ i \in 0 .. MaxK
    /\ Len(winners) <= MaxK

----------------------------------------------------------------------------
(* Vocabulary of the properties *)

Weighted == {"Roulette", "Universal", "Rank", "Boltzmann"}
ArgumentErrors == {"ValueError", "TypeError"}
DomainErrors == {"ZeroDivisionError", "ValueError", "ArithmeticError"}

Done == pc = "done"
Length == Len(population)

(* the weight vector handed to the walk exists and is valid *)
WeightsBuilt == Length > 0 /\ Len(fitness_list) = Length
ValidWeights ==
    /\ WeightsBuilt
    /\ \A j \in 1 .. Length : fitness_list[j][1] >= 0
    /\ Sum(fitness_list)[1] > 0

IsSortedDesc ==
    \A a, b \in 1 .. Length : a < b => fitness[population[a]] >= fitness[population[b]]
IsPermutation == {population[j] : j \in 1 .. Length} = 1 .. Length

Count(x) == Cardinality({p \in 1 .. Len(winners) : winners[p] = x})
MaxFitness(S) == CHOOSE v \in {fitness[x] : x \in S} : \A x \in S : fitness[x] <= v

(* the least integer c with c * d >= a, and never below 0 *)
QuotaOf(a, d) ==
    LET B == MaxK + MaxLen + 2
        c == CHOOSE c \in -B .. B : c * d >= a /\ (c - 1) * d < a
    IN  IF c < 0 THEN 0 ELSE c

RECURSIVE QuotaBefore(_)
QuotaBefore(rank) ==
    IF rank = 0 THEN 0 ELSE QuotaBefore(rank - 1) + QuotaOf(k - (rank - 1), Length)

----------------------------------------------------------------------------
(* C1: for the six strategies other than EliteSelection, get_winners on a  *)
(* non-empty population with k >= 0 and valid weights returns exactly k    *)
(* winners, whatever the uniform draws in [0, 1) are.                      *)
C1_ExactlyK ==
    (/\ Done
     /\ method # "Elite"
     /\ Length > 0
     /\ k >= 0
     /\ (method \in Weighted => ValidWeights))
        => (result = "returned" /\ Len(winners) = k)

(* C2: every strategy returns the empty sequence, without an error, when   *)
(* the population is empty or k = 0; with an empty population no fitness   *)
(* is evaluated.                                                           *)
C2_EmptyOrZero ==
    (Done /\ k >= 0 /\ (Length = 0 \/ k = 0))
        => (/\ result = "returned"
            /\ winners = <<>>
            /\ (Length = 0 => evals = 0))

(* C3: in the weighted-sampling strategies, a weight vector whose total is *)
(* zero or negative, or that holds a negative weight, ends the call in a   *)
(* domain error for every k >= 0; no winners sequence is returned.         *)
C3_InvalidWeightsFail ==
    (/\ Done
     /\ method \in Weighted
     /\ k >= 0
     /\ WeightsBuilt
     /\ ~ValidWeights)
        => result \in DomainErrors

(* C4: k < 0 is rejected with an invalid-argument error by every strategy; *)
(* no winners sequence is returned.                                        *)
C4_NegativeKRejected ==
    (Done /\ k < 0) => result \in ArgumentErrors

(* C5: EliteSelection on a non-empty population with k >= 0 returns, best  *)
(* rank first, max(0, ceil((k - i) / length)) consecutive copies of the    *)
(* rank-i individual of the descending sort; for k <= length these are the *)
(* k fittest individuals, each once, best first.                           *)
C5_EliteQuotas ==
    (Done /\ method = "Elite" /\ Length > 0 /\ k >= 0)
        => (/\ result = "returned"
            /\ IsSortedDesc
            /\ IsPermutation
            /\ Len(winners) = QuotaBefore(Length)
            /\ \A rank \in 0 .. Length - 1 :
                  \A p \in QuotaBefore(rank) + 1 .. QuotaBefore(rank + 1) :
                     winners[p] = population[rank + 1]
            /\ (k <= Length => winners = SubSeq(population, 1, k)))

C5_Witness ==
    /\ Done /\ method = "Elite"
    /\ Length = 3 /\ k = 3
    /\ fitness = <<0, 2, 1>>
    /\ winners = <<2, 3, 1>>

(* C6: UniversalSelection with a non-empty population, k >= 1 and valid    *)
(* weights: for every draw r and every position j, the number of pointers  *)
(* that select j differs from k * p_j by at most one.                      *)
C6_UniversalWithinOne ==
    (/\ Done
     /\ method = "Universal"
     /\ result = "returned"
     /\ k >= 1
     /\ ValidWeights)
        => \A j \in 1 .. Length :
              LET w == fitness[population[j]]
                  S == Sum(fitness_list)[1]
              IN  /\ (Count(population[j]) - 1) * S <= k * w
                  /\ k * w <= (Count(population[j]) + 1) * S

C6_Witness ==
    /\ Done /\ method = "Universal" /\ result = "returned"
    /\ ValidWeights
    /\ Length >= 2 /\ k >= 3
    /\ Count(population[1]) >= 2
    /\ Count(population[2]) >= 1

(* C7 as stated: with m equal to the population length, every winner of    *)
(* DeterministicTournamentSelection has the maximum fitness of the whole   *)
(* population.                                                             *)
C7_WinnersAreGlobalMax ==
    (/\ Done
     /\ method = "DetTournament"
     /\ m = Length
     /\ Length > 0
     /\ k >= 1)
        => \A p \in 1 .. Len(winners) :
              fitness[winners[p]] = MaxFitness(1 .. Length)

(* C7 amended: with m equal to the population length, every winner of      *)
(* DeterministicTournamentSelection is one of the m individuals sampled    *)
(* for its draw and has the maximum fitness among them; it has the maximum *)
(* fitness of the whole population when the draw sampled such an           *)
(* individual.                                                             *)
C7_WinnerIsMaxOfSampled ==
    (/\ method = "DetTournament"
     /\ m = Length
     /\ i >= 1)
        => LET S == {population[j] : j \in entrants}
           IN  /\ Len(winners) = i
               /\ winners[i] \in S
               /\ fitness[winners[i]] = MaxFitness(S)
               /\ ((\E x \in S : fitness[x] = MaxFitness(1 .. Length))
                      => fitness[winners[i]] = MaxFitness(1 .. Length))

C7_Witness ==
    /\ Done /\ method = "DetTournament"
    /\ m = Length /\ Length = 3 /\ k >= 2
    /\ Cardinality(entrants) = 2
    /\ \E a, b \in entrants : fitness[population[a]] < fitness[population[b]]
    /\ fitness[winners[i]] < MaxFitness(1 .. Length)

(* C8: in a draw of ProbabilisticTournamentSelection whose two sampled     *)
(* individuals have equal fitness, the output is the first sampled         *)
(* individual when u < t and the second sampled individual otherwise.      *)
C8_TieFirstIsBest ==
    (/\ method = "ProbTournament"
     /\ i >= 1
     /\ fitness[population[sampled[1]]] = fitness[population[sampled[2]]])
        => winners[i] = IF RLt(r, threshold) THEN population[sampled[1]]
                        ELSE population[sampled[2]]

(* C9: RankSelection never selects the position that is last after the     *)
(* descending sort: its weight is exactly 0 and no walk stops there.       *)
C9_RankLastNeverSelected ==
    (method = "Rank" /\ pc # "start" /\ Length > 0)
        => (/\ IsSortedDesc
            /\ (WeightsBuilt => fitness_list[Length] = RInt(0))
            /\ \A p \in 1 .. Len(winners) : winners[p] # population[Length])

C9_Witness ==
    /\ Done /\ method = "Rank" /\ result = "returned"
    /\ Length = 3 /\ k = 3
    /\ Len(winners) = 3
    /\ Count(population[1]) >= 1
    /\ Count(population[2]) >= 1

(* C10: EliteSelection returns exactly k winners for every non-empty       *)
(* population and every k >= 0, both for k <= length and for k > length.   *)
C10_EliteReturnsK ==
    (Done /\ method = "Elite" /\ Length > 0 /\ k >= 0)
        => (Len(winners) = k /\ QuotaBefore(Length) = k)

C10_Witness ==
    /\ Done /\ method = "Elite"
    /\ Length = 2 /\ k = 3
    /\ Len(winners) = 3
====
